---- MODULE Spec2Model ----
(***************************************************************************)
(* Content synchronisation of minisource/doc: the Payload collections Docs *)
(* and Meta mirror every record mutation to a file tree (hooks of          *)
(* cms/src/collections/Docs.ts and Meta.ts), and the script                *)
(* cms/src/scripts/sync-docs.ts reconciles the Docs collection with the    *)
(* .mdx files of the docs directory. The collection ApiSpecs fetches the   *)
(* OpenAPI document of a record, writes it to doc/public/swagger.json and  *)
(* runs the generator script.                                              *)
(*                                                                         *)
(* A file name is a sequence of tokens (<<"a", ".mdx">> is "a.mdx"), a      *)
(* path is a sequence of names from the filesystem root, and a slug or a   *)
(* Meta path is the sequence of the '/'-separated segments of its string.  *)
(***************************************************************************)
EXTENDS Integers, Sequences, FiniteSets, TLC

VARIABLES
    fs,      \* the filesystem: [dirs: set of paths, files: path -> content]
    docs,    \* collection 'docs': slug -> content (slug is unique)
    metas,   \* collection 'meta': path -> content (path is unique)
    lastOp,  \* the last record mutation and what its hook did
    clean,   \* history: tree and store began converged, no I/O fault since
    nops,    \* number of record mutations issued through the API
    sync,    \* the state of the syncDocs() run; failure: an operation of a pass failed
    api,     \* collection 'api-specs': the runs of its afterChange hook
    pf,      \* a text and what parseFrontmatter made of it
    pending, \* committed Docs mutations whose afterChange hook has not run yet
    live,    \* history: slugs created through the API while a pass was running
    bulk,    \* number of further 'docs' records, each with a file of equal content
    genrun   \* a run of doc/scripts/generate-api.ts

vars == <<fs, docs, metas, lastOp, clean, nops, sync, api, pf, pending, live, bulk, genrun>>

\* ------------------------------------------------------------------ bounds
MaxOps == 1

\* ------------------------------------------------------------------- names
N(s) == <<s>>
MDX == ".mdx"
PARENT == N("..")
DOT == N(".")
EMPTYNAME == <<>>
META_JSON == N("meta.json")

Front(p) == SubSeq(p, 1, Len(p) - 1)
Last(p) == p[Len(p)]
IsPrefix(p, q) == Len(p) <= Len(q) /\ SubSeq(q, 1, Len(p)) = p
IsStrictPrefix(p, q) == Len(p) < Len(q) /\ SubSeq(q, 1, Len(p)) = p
Prefixes(p) == { SubSeq(p, 1, i) : i \in 1..Len(p) }

\* path.join(base, ...rel): concatenation followed by normalisation, which
\* drops empty and "." segments and lets ".." remove the segment before it.
RECURSIVE join(_, _)
join(base, rel) ==
    IF rel = <<>> THEN base
    ELSE LET h == Head(rel) IN
         join(IF h = EMPTYNAME \/ h = DOT THEN base
              ELSE IF h = PARENT THEN (IF base = <<>> THEN base ELSE Front(base))
              ELSE Append(base, h),
              Tail(rel))

\* path.dirname(p); the root is its own parent.
dirname(p) == IF p = <<>> THEN p ELSE Front(p)

\* process.cwd() of the CMS process and of the sync script: <root>/cms
cwd == <<N("cms")>>

\* -------------------------------------------------------------- filesystem
ROOT == <<>>
IsDir(f, p) == p = ROOT \/ p \in f.dirs
IsFile(f, p) == p \in DOMAIN f.files
existsSync(f, p) == IsDir(f, p) \/ IsFile(f, p)

\* the entries of directory p
Entries(f, p) ==
    { Last(q) : q \in { r \in f.dirs \cup DOMAIN f.files : Len(r) = Len(p) + 1 /\ IsPrefix(p, r) } }

\* fs.mkdirSync(p, {recursive: true}): creates the missing chain; throws when
\* a component is a file, or when the environment refuses (fault).
mkdirSync(f, p, fault) ==
    IF fault \/ \E q \in Prefixes(p) : IsFile(f, q)
    THEN [ok |-> FALSE, fs |-> f]
    ELSE [ok |-> TRUE, fs |-> [f EXCEPT !.dirs = @ \cup Prefixes(p)]]

\* fs.writeFileSync(p, c): creates or overwrites the file; throws when the
\* parent is no directory, when p is a directory, or on an environment fault.
writeFileSync(f, p, c, fault) ==
    IF fault \/ p = ROOT \/ ~IsDir(f, dirname(p)) \/ IsDir(f, p)
    THEN [ok |-> FALSE, fs |-> f]
    ELSE [ok |-> TRUE,
          fs |-> [f EXCEPT !.files = [q \in DOMAIN f.files \cup {p} |->
                                         IF q = p THEN c ELSE f.files[q]]]]

\* fs.unlinkSync(p): throws when p is no file (ENOENT, EISDIR) or on a fault.
unlinkSync(f, p, fault) ==
    IF fault \/ ~IsFile(f, p)
    THEN [ok |-> FALSE, fs |-> f]
    ELSE [ok |-> TRUE,
          fs |-> [f EXCEPT !.files = [q \in DOMAIN f.files \ {p} |-> f.files[q]]]]

\* fs.rmdirSync(p): throws when p is no directory, is not empty, is the root,
\* or on a fault.
rmdirSync(f, p, fault) ==
    IF fault \/ p = ROOT \/ p \notin f.dirs \/ Entries(f, p) # {}
    THEN [ok |-> FALSE, fs |-> f]
    ELSE [ok |-> TRUE, fs |-> [f EXCEPT !.dirs = @ \ {p}]]

\* removeEmptyDirs as it would be without the recursive check of the parent
removeEmptyDirs_NoParent(f, dir, fault) ==
    IF ~IsDir(f, dir) THEN f
    ELSE IF Entries(f, dir) # {} THEN f
    ELSE LET r == rmdirSync(f, dir, fault) IN
         IF ~r.ok THEN f ELSE r.fs

\* Docs.ts removeEmptyDirs(dir): readdirSync throws on a missing directory;
\* every throw is swallowed by the catch and ends the walk.
RECURSIVE removeEmptyDirs(_, _, _)
removeEmptyDirs(f, dir, fault) ==
    IF ~IsDir(f, dir) THEN f
    ELSE IF Entries(f, dir) # {} THEN f
    ELSE LET r == rmdirSync(f, dir, fault)
             parent == dirname(dir) IN
         IF ~r.ok THEN f
         ELSE IF parent # dir THEN removeEmptyDirs(r.fs, parent, fault)
         ELSE r.fs

\* ------------------------------------------------------------ content root
\* existsSync(join(process.cwd(), 'content')) ? 'content' : join('..', 'doc', 'content')
contentDir(f) ==
    IF existsSync(f, join(cwd, <<N("content")>>))
    THEN <<N("content")>>
    ELSE <<PARENT, N("doc"), N("content")>>

docsDirOf(f) == join(cwd, contentDir(f) \o <<N("docs")>>)

\* `${doc.slug}.mdx` seen as path segments
SlugFile(slug) == Front(slug) \o << Last(slug) \o <<MDX>> >>

\* -------------------------------------------------------------- Docs hooks
\* afterChange as it would be if it wrote every file directly into the docs
\* directory, under the last segment of the slug
DocsAfterChange_Basename(f, doc, operation, fault) ==
    IF operation \notin {"create", "update"} THEN [threw |-> FALSE, fs |-> f]
    ELSE
    LET docsDir == docsDirOf(f)
        m1 == IF ~existsSync(f, docsDir)
              THEN mkdirSync(f, docsDir, fault = "mkdir")
              ELSE [ok |-> TRUE, fs |-> f]
        filePath == join(docsDir, <<Last(SlugFile(doc.slug))>>)
        w == writeFileSync(m1.fs, filePath, doc.content, fault = "write")
    IN  IF ~m1.ok THEN [threw |-> TRUE, fs |-> m1.fs]
        ELSE [threw |-> ~w.ok, fs |-> w.fs]

\* Docs.hooks.afterChange; fault is the fs call the environment lets fail.
DocsAfterChange(f, doc, operation, fault) ==
    IF operation \notin {"create", "update"} THEN [threw |-> FALSE, fs |-> f]
    ELSE
    LET docsDir == docsDirOf(f)
        m1 == IF ~existsSync(f, docsDir)
              THEN mkdirSync(f, docsDir, fault = "mkdir")
              ELSE [ok |-> TRUE, fs |-> f]
        filePath == join(docsDir, SlugFile(doc.slug))
        m2 == mkdirSync(m1.fs, dirname(filePath), fault = "mkdir")
        w == writeFileSync(m2.fs, filePath, doc.content, fault = "write")
    IN  IF ~m1.ok THEN [threw |-> TRUE, fs |-> m1.fs]
        ELSE IF ~m2.ok THEN [threw |-> TRUE, fs |-> m2.fs]
        ELSE [threw |-> ~w.ok, fs |-> w.fs]

\* afterDelete as it would be without its try/catch
DocsAfterDelete_Throwing(f, doc, fault) ==
    LET filePath == join(cwd, contentDir(f) \o <<N("docs")>> \o SlugFile(doc.slug))
        u == unlinkSync(f, filePath, fault = "unlink")
    IN  IF ~u.ok THEN [threw |-> TRUE, fs |-> f]
        ELSE [threw |-> FALSE,
              fs |-> removeEmptyDirs(u.fs, dirname(filePath), fault = "rmdir")]

\* Docs.hooks.afterDelete: every throw is swallowed.
DocsAfterDelete(f, doc, fault) ==
    LET filePath == join(cwd, contentDir(f) \o <<N("docs")>> \o SlugFile(doc.slug))
        u == unlinkSync(f, filePath, fault = "unlink")
    IN  IF ~u.ok THEN [threw |-> FALSE, fs |-> f]
        ELSE [threw |-> FALSE,
              fs |-> removeEmptyDirs(u.fs, dirname(filePath), fault = "rmdir")]

\* -------------------------------------------------------------- Meta hooks
MetaFile(f, path) ==
    join(join(cwd, contentDir(f) \o <<N("docs")>>), path \o <<META_JSON>>)

\* Meta.hooks.afterChange
MetaAfterChange(f, doc, operation, fault) ==
    IF operation \notin {"create", "update"} THEN [threw |-> FALSE, fs |-> f]
    ELSE
    LET filePath == MetaFile(f, doc.path)
        m == mkdirSync(f, dirname(filePath), fault = "mkdir")
        w == writeFileSync(m.fs, filePath, doc.content, fault = "write")
    IN  IF ~m.ok THEN [threw |-> TRUE, fs |-> m.fs]
        ELSE [threw |-> ~w.ok, fs |-> w.fs]

\* Meta.hooks.afterDelete: unlink only, every throw is swallowed.
MetaAfterDelete(f, doc, fault) ==
    LET filePath == MetaFile(f, doc.path)
        u == unlinkSync(f, filePath, fault = "unlink")
    IN  [threw |-> FALSE, fs |-> u.fs]

\* ------------------------------------------------------------ record store
\* The Payload operations on the two collections, with the collection's
\* field rules (required, unique) and hooks. dbOk: the database accepts the
\* write. A throwing afterChange hook fails the operation; whether the write
\* is then rolled back depends on the database adapter (rollback).
Put(store, key, content) ==
    [k \in DOMAIN store \cup {key} |-> IF k = key THEN content ELSE store[k]]
Drop(store, key) == [k \in DOMAIN store \ {key} |-> store[k]]

EMPTYKEY == <<EMPTYNAME>>

\* payload.create({collection: 'docs', data: doc})
DocsCreate(d, f, doc, dbOk, fault, rollback) ==
    IF ~dbOk \/ doc.slug = EMPTYKEY \/ doc.slug \in DOMAIN d
    THEN [ok |-> FALSE, threw |-> FALSE, docs |-> d, fs |-> f]
    ELSE LET h == DocsAfterChange(f, doc, "create", fault) IN
         [ok |-> ~h.threw, threw |-> h.threw, fs |-> h.fs,
          docs |-> IF h.threw /\ rollback THEN d ELSE Put(d, doc.slug, doc.content)]

\* payload.update({collection: 'docs', id, data: doc}); old is the slug the
\* record has before the update.
DocsUpdate(d, f, old, doc, dbOk, fault, rollback) ==
    IF ~dbOk \/ old \notin DOMAIN d \/ doc.slug = EMPTYKEY
       \/ (doc.slug # old /\ doc.slug \in DOMAIN d)
    THEN [ok |-> FALSE, threw |-> FALSE, docs |-> d, fs |-> f]
    ELSE LET h == DocsAfterChange(f, doc, "update", fault) IN
         [ok |-> ~h.threw, threw |-> h.threw, fs |-> h.fs,
          docs |-> IF h.threw /\ rollback THEN d
                   ELSE Put(Drop(d, old), doc.slug, doc.content)]

\* payload.delete({collection: 'docs', id})
DocsDelete(d, f, slug, dbOk, fault) ==
    IF ~dbOk \/ slug \notin DOMAIN d
    THEN [ok |-> FALSE, threw |-> FALSE, docs |-> d, fs |-> f]
    ELSE LET h == DocsAfterDelete(f, [slug |-> slug, content |-> d[slug]], fault) IN
         [ok |-> ~h.threw, threw |-> h.threw, fs |-> h.fs, docs |-> Drop(d, slug)]

\* payload.create({collection: 'meta', data: doc})
MetaCreate(m, f, doc, dbOk, fault, rollback) ==
    IF ~dbOk \/ doc.path = EMPTYKEY \/ doc.path \in DOMAIN m
    THEN [ok |-> FALSE, threw |-> FALSE, metas |-> m, fs |-> f]
    ELSE LET h == MetaAfterChange(f, doc, "create", fault) IN
         [ok |-> ~h.threw, threw |-> h.threw, fs |-> h.fs,
          metas |-> IF h.threw /\ rollback THEN m ELSE Put(m, doc.path, doc.content)]

\* payload.update({collection: 'meta', id, data: doc})
MetaUpdate(m, f, old, doc, dbOk, fault, rollback) ==
    IF ~dbOk \/ old \notin DOMAIN m \/ doc.path = EMPTYKEY
       \/ (doc.path # old /\ doc.path \in DOMAIN m)
    THEN [ok |-> FALSE, threw |-> FALSE, metas |-> m, fs |-> f]
    ELSE LET h == MetaAfterChange(f, doc, "update", fault) IN
         [ok |-> ~h.threw, threw |-> h.threw, fs |-> h.fs,
          metas |-> IF h.threw /\ rollback THEN m
                    ELSE Put(Drop(m, old), doc.path, doc.content)]

\* payload.delete({collection: 'meta', id})
MetaDelete(m, f, path, dbOk, fault) ==
    IF ~dbOk \/ path \notin DOMAIN m
    THEN [ok |-> FALSE, threw |-> FALSE, metas |-> m, fs |-> f]
    ELSE LET h == MetaAfterDelete(f, [path |-> path, content |-> m[path]], fault) IN
         [ok |-> ~h.threw, threw |-> h.threw, fs |-> h.fs, metas |-> Drop(m, path)]

\* ------------------------------------------------------------------ inputs
Contents == {"X", "Y"}
sA == <<N("a")>>
sB == <<N("b")>>
sGA == <<N("g"), N("a")>>
sGHC == <<N("g"), N("h"), N("c")>>
Slugs == {sA, sGA, sGHC}
MetaPaths == {<<N("g")>>, <<N("g"), N("h")>>}
InitMetaPaths == {<<N("g"), N("h")>>}
ChangeFaults == {"none", "mkdir", "write"}
DeleteFaults == {"none", "unlink", "rmdir"}

\* the two places the content root can be (contentDir): <cwd>/content or
\* <cwd>/../doc/content
LocalContent == join(cwd, <<N("content")>>)
SiblingContent == join(cwd, <<PARENT, N("doc"), N("content")>>)
Layouts == {LocalContent, SiblingContent}

\* files of the two packages that no hook addresses
PackageFiles == {<<N("cms"), N("package.json")>>, <<N("doc"), N("package.json")>>}

\* The tree with content root `content` that holds the files `tree`
\* (path relative to the docs directory -> content).
TreeOf(content, tree) ==
    LET docsDir == Append(content, N("docs"))
        abs == { docsDir \o p : p \in DOMAIN tree }
        all == abs \cup PackageFiles
    IN  [dirs  |-> UNION { Prefixes(dirname(p)) : p \in all } \cup Prefixes(docsDir),
         files |-> [p \in all |-> IF p \in PackageFiles THEN "pkg"
                                  ELSE tree[SubSeq(p, Len(docsDir) + 1, Len(p))]]]

\* The files the records of store d are mirrored to, relative to the docs directory.
MirrorOf(d) ==
    [p \in { SlugFile(s) : s \in DOMAIN d } |->
        d[CHOOSE s \in DOMAIN d : SlugFile(s) = p]]

Merge(t1, t2) == [p \in DOMAIN t1 \cup DOMAIN t2 |-> IF p \in DOMAIN t1 THEN t1[p] ELSE t2[p]]

\* the .mdx files below the docs directory in use, relative to it
MdxFiles(f) ==
    LET docsDir == docsDirOf(f) IN
    { SubSeq(p, Len(docsDir) + 1, Len(p)) :
        p \in { q \in DOMAIN f.files : IsStrictPrefix(docsDir, q) /\ Last(Last(q)) = MDX } }

\* Tree and store are converged: the .mdx files are the records' files and
\* each holds its record's content.
Converged(f, d) ==
    /\ MdxFiles(f) = { SlugFile(s) : s \in DOMAIN d }
    /\ \A s \in DOMAIN d : f.files[join(docsDirOf(f), SlugFile(s))] = d[s]

NoOp ==
    [coll |-> "none", op |-> "none", key |-> <<>>, from |-> <<>>, content |-> "",
     fault |-> "none", threw |-> FALSE, ok |-> FALSE, removed |-> {},
     docsDir |-> <<>>, same |-> TRUE, pass |-> 0]

SyncIdle ==
    [pc |-> "idle", docsDir |-> <<>>, files |-> {}, existingDocs |-> <<>>,
     todoFiles |-> {}, todoDocs |-> {},
     report |-> [created |-> {}, updated |-> {}, deleted |-> {}, failed |-> {}],
     passes |-> 0, missing |-> 0, failure |-> FALSE,
     abort |-> "none", exit |-> -1]

\* The files the Meta records of store m are mirrored to.
MetaMirrorOf(m) ==
    [p \in { Append(k, META_JSON) : k \in DOMAIN m } |-> m[Front(p)]]

\* The CMS starts on a tree that mirrors the two collections.
Init ==
    /\ \E content \in Layouts, ds \in SUBSET Slugs, ms \in SUBSET InitMetaPaths :
         /\ docs = [s \in ds |-> "X"]
         /\ metas = [k \in ms |-> "X"]
         /\ fs = TreeOf(content, Merge(MirrorOf(docs), MetaMirrorOf(metas)))
    /\ lastOp = NoOp
    /\ clean = Converged(fs, docs)
    /\ nops = 0
    /\ sync = SyncIdle
    /\ api = <<>>
    /\ pf = <<>>
    /\ pending = {}
    /\ live = {}
    /\ bulk = 0
    /\ genrun = <<>>

\* --------------------------------------------------------- record mutations
\* What the caller and the tree saw of a mutation: r is the operation's
\* result, `before` the filesystem it ran on, and pass the number of the
\* syncDocs run that issued it (0: issued through the API).
Op(coll, op, key, from, content, fault, r, before, pass) ==
    [coll |-> coll, op |-> op, key |-> key, from |-> from, content |-> content,
     fault |-> fault, threw |-> r.threw, ok |-> r.ok,
     removed |-> before.dirs \ r.fs.dirs,
     docsDir |-> docsDirOf(before), same |-> r.fs = before, pass |-> pass]

\* a syncDocs run is between its readdirSync and its exit
PassRunning == sync.pc \in {"find", "further", "files", "delete"}

CreateDoc ==
    /\ nops < MaxOps
    /\ \E slug \in Slugs, content \in Contents, fault \in ChangeFaults,
          rollback \in BOOLEAN :
         LET r == DocsCreate(docs, fs, [slug |-> slug, content |-> content],
                             TRUE, fault, rollback) IN
         /\ fs' = r.fs
         /\ docs' = r.docs
         /\ lastOp' = Op("docs", "create", slug, slug, content,
                         fault, r, fs, 0)
         /\ clean' = (clean /\ fault = "none" /\ ~r.threw)
         /\ live' = IF PassRunning /\ r.ok THEN live \cup {slug} ELSE live
    /\ nops' = nops + 1
    /\ UNCHANGED <<metas, sync, api, pf, pending, bulk, genrun>>

UpdateDoc ==
    /\ nops < MaxOps
    /\ \E old \in DOMAIN docs, slug \in Slugs, content \in Contents,
          fault \in ChangeFaults, rollback \in BOOLEAN :
         LET r == DocsUpdate(docs, fs, old, [slug |-> slug, content |-> content],
                             TRUE, fault, rollback) IN
         /\ fs' = r.fs
         /\ docs' = r.docs
         /\ lastOp' = Op("docs", "update", slug, old, content,
                         fault, r, fs, 0)
         /\ clean' = (clean /\ fault = "none" /\ ~r.threw)
    /\ nops' = nops + 1
    /\ UNCHANGED <<metas, sync, api, pf, pending, live, bulk, genrun>>

DeleteDoc ==
    /\ nops < MaxOps
    /\ \E slug \in DOMAIN docs, fault \in DeleteFaults :
         LET r == DocsDelete(docs, fs, slug, TRUE, fault) IN
         /\ fs' = r.fs
         /\ docs' = r.docs
         /\ lastOp' = Op("docs", "delete", slug, slug, docs[slug],
                         fault, r, fs, 0)
         /\ clean' = (clean /\ fault = "none" /\ ~r.threw)
    /\ nops' = nops + 1
    /\ UNCHANGED <<metas, sync, api, pf, pending, live, bulk, genrun>>

CreateMeta ==
    /\ nops < MaxOps
    /\ \E path \in MetaPaths, content \in Contents, fault \in ChangeFaults,
          rollback \in BOOLEAN :
         LET r == MetaCreate(metas, fs, [path |-> path, content |-> content],
                             TRUE, fault, rollback) IN
         /\ fs' = r.fs
         /\ metas' = r.metas
         /\ lastOp' = Op("meta", "create", path, path, content,
                         fault, r, fs, 0)
         /\ clean' = (clean /\ fault = "none" /\ ~r.threw)
    /\ nops' = nops + 1
    /\ UNCHANGED <<docs, sync, api, pf, pending, live, bulk, genrun>>

UpdateMeta ==
    /\ nops < MaxOps
    /\ \E old \in DOMAIN metas, path \in MetaPaths, content \in Contents,
          fault \in ChangeFaults, rollback \in BOOLEAN :
         LET r == MetaUpdate(metas, fs, old, [path |-> path, content |-> content],
                             TRUE, fault, rollback) IN
         /\ fs' = r.fs
         /\ metas' = r.metas
         /\ lastOp' = Op("meta", "update", path, old, content,
                         fault, r, fs, 0)
         /\ clean' = (clean /\ fault = "none" /\ ~r.threw)
    /\ nops' = nops + 1
    /\ UNCHANGED <<docs, sync, api, pf, pending, live, bulk, genrun>>

DeleteMeta ==
    /\ nops < MaxOps
    /\ \E path \in DOMAIN metas, fault \in DeleteFaults :
         LET r == MetaDelete(metas, fs, path, TRUE, fault) IN
         /\ fs' = r.fs
         /\ metas' = r.metas
         /\ lastOp' = Op("meta", "delete", path, path, metas[path],
                         fault, r, fs, 0)
         /\ clean' = (clean /\ fault = "none" /\ ~r.threw)
    /\ nops' = nops + 1
    /\ UNCHANGED <<docs, sync, api, pf, pending, live, bulk, genrun>>

Next ==
    \/ CreateDoc
    \/ UpdateDoc
    \/ DeleteDoc
    \/ CreateMeta
    \/ UpdateMeta
    \/ DeleteMeta

Spec == Init /\ [][Next]_vars

\* --------------------------------------------------------- reconciliation
\* sync-docs.ts syncDocs(), one step per awaited store operation.
MaxPasses == 2
FindLimit == 1000

SyncSlugs == {sA, sB, sGA}

\* file.replace('.mdx', ''): the first occurrence is removed
RECURSIVE RemoveFirst(_, _)
RemoveFirst(name, tok) ==
    IF name = <<>> THEN name
    ELSE IF Head(name) = tok THEN Tail(name)
    ELSE <<Head(name)>> \o RemoveFirst(Tail(name), tok)

\* file.endsWith('.mdx')
endsWith(name, tok) == name # <<>> /\ Last(name) = tok

\* payload.find({collection: 'docs', limit}): one page of at most `limit`
\* of the records, which are the records of d and n further ones; a page is
\* given as the records of d it holds and the number of further records it
\* leaves out
Find(d, n, limit) ==
    LET over == Cardinality(DOMAIN d) + n - limit IN
    IF over <= 0 THEN {[docs |-> d, missing |-> 0]}
    ELSE { [docs |-> [s \in DOMAIN d \ out |-> d[s]], missing |-> over - Cardinality(out)] :
             out \in { q \in SUBSET DOMAIN d :
                         Cardinality(q) <= over /\ over - Cardinality(q) <= n } }

\* the slug under which the further records are reported
BULK == <<N("further")>>

\* files.includes(`${doc.slug}.mdx`): a slug with a separator names no entry
HasFile(files, slug) == Len(slug) = 1 /\ (slug[1] \o <<MDX>>) \in files

Report(kind, slug) == [sync.report EXCEPT ![kind] = @ \cup {slug}]

\* the try/catch around payload.update and payload.create as it would be if
\* the catch rethrew
FileOutcome_Rethrow(r, kind, slug, rest, next) ==
    IF r.ok
    THEN [sync EXCEPT !.todoFiles = rest, !.pc = next, !.report = Report(kind, slug)]
    ELSE [sync EXCEPT !.pc = "exited", !.exit = 1, !.abort = "item", !.failure = TRUE]

\* lines 68-77 and 80-88: the result r of payload.update or payload.create
\* is logged, a throw is caught and logged, and the loop goes on
FileOutcome(r, kind, slug, rest, next) ==
    [sync EXCEPT !.todoFiles = rest, !.pc = next,
                 !.report = Report(IF r.ok THEN kind ELSE "failed", slug),
                 !.failure = @ \/ ~r.ok]

\* lines 30-41: getPayload, the docs directory and readdirSync, up to the
\* call of payload.find
SyncStart ==
    /\ sync.pc \in {"idle", "exited", "returned"}
    /\ sync.passes < MaxPasses
    /\ \E reachable \in BOOLEAN :
         LET docsDir == docsDirOf(fs)
             files == { n \in Entries(fs, docsDir) : endsWith(n, MDX) }
             n == sync.passes + 1
         IN  IF ~reachable
             THEN sync' = [SyncIdle EXCEPT !.pc = "exited", !.exit = 1,
                                           !.abort = "store", !.passes = n,
                                           !.failure = TRUE]
             ELSE IF ~existsSync(fs, docsDir)
             THEN sync' = [SyncIdle EXCEPT !.pc = "returned", !.docsDir = docsDir,
                                           !.passes = n, !.failure = sync.failure]
             ELSE sync' = [SyncIdle EXCEPT !.pc = "find", !.docsDir = docsDir,
                                           !.files = files, !.todoFiles = files,
                                           !.passes = n, !.failure = sync.failure]
    /\ UNCHANGED <<fs, docs, metas, lastOp, clean, nops, api, pf, pending, live, bulk, genrun>>

\* lines 44-49: `await payload.find(...)` settles with the records the store
\* holds at that moment
SyncFind ==
    /\ sync.pc = "find"
    /\ \E found \in Find(docs, bulk, FindLimit) :
         sync' = [sync EXCEPT !.pc = IF bulk > 0 THEN "further"
                                     ELSE IF sync.files = {} THEN "delete" ELSE "files",
                              !.existingDocs = found.docs,
                              !.missing = found.missing,
                              !.todoDocs = DOMAIN found.docs]
    /\ UNCHANGED <<fs, docs, metas, lastOp, clean, nops, api, pf, pending, live, bulk, genrun>>

\* lines 52-90 for the files of the further records, which hold what
\* their records hold: a file whose record is on the page is left alone
\* (line 68 finds no difference); for a file whose record is not on the
\* page payload.create is called (line 81), the unique slug rejects it and
\* the catch logs it
SyncFurther ==
    /\ sync.pc = "further"
    /\ sync' = [sync EXCEPT !.pc = IF sync.files = {} THEN "delete" ELSE "files",
                            !.report = IF sync.missing > 0 THEN Report("failed", BULK)
                                       ELSE @,
                            !.failure = @ \/ sync.missing > 0]
    /\ UNCHANGED <<fs, docs, metas, lastOp, clean, nops, api, pf, pending, live, bulk, genrun>>

\* a comparison that holds for every record found
changed_Always(existing, content) == TRUE

\* line 67: existing.content !== docData.content, on the raw text of the file
changed(existing, content) == existing # content

\* lines 52-90: one iteration of the loop over the files. The result of
\* parseFrontmatter(content) (line 55) is not used: the record gets the raw
\* text of the file.
SyncFile ==
    /\ sync.pc = "files"
    /\ \E file \in sync.todoFiles, dbOk \in BOOLEAN, fault \in ChangeFaults,
          rollback \in BOOLEAN :
         LET filePath == join(sync.docsDir, <<file>>)
             slug == <<RemoveFirst(file, MDX)>>
             rest == sync.todoFiles \ {file}
             next == IF rest = {} THEN "delete" ELSE "files"
         IN
         IF ~IsFile(fs, filePath)
         THEN \* readFileSync throws outside any try: the run is rejected
              /\ sync' = [sync EXCEPT !.pc = "exited", !.exit = 1, !.abort = "read",
                                       !.failure = TRUE]
              /\ UNCHANGED <<fs, docs, lastOp, clean>>
         ELSE
         LET content == fs.files[filePath]
             docData == [slug |-> slug, content |-> content]
         IN
         IF slug \in DOMAIN sync.existingDocs
         THEN IF changed(sync.existingDocs[slug], content)
              THEN LET r == DocsUpdate(docs, fs, slug, docData, dbOk, fault, rollback) IN
                   /\ fs' = r.fs
                   /\ docs' = r.docs
                   /\ lastOp' = Op("docs", "update", slug, slug, content,
                                   IF dbOk THEN fault ELSE "db", r, fs, sync.passes)
                   /\ clean' = (clean /\ r.ok /\ fault = "none")
                   /\ sync' = FileOutcome(r, "updated", slug, rest, next)
              ELSE /\ sync' = [sync EXCEPT !.todoFiles = rest, !.pc = next]
                   /\ UNCHANGED <<fs, docs, lastOp, clean>>
         ELSE LET r == DocsCreate(docs, fs, docData, dbOk, fault, rollback) IN
              /\ fs' = r.fs
              /\ docs' = r.docs
              /\ lastOp' = Op("docs", "create", slug, slug, content,
                              IF dbOk THEN fault ELSE "db", r, fs, sync.passes)
              /\ clean' = (clean /\ r.ok /\ fault = "none")
              /\ sync' = FileOutcome(r, "created", slug, rest, next)
    /\ UNCHANGED <<metas, nops, api, pf, pending, live, bulk, genrun>>

\* lines 93-101: one iteration of the loop over the records found
SyncDelete ==
    /\ sync.pc = "delete"
    /\ \E slug \in sync.todoDocs, dbOk \in BOOLEAN, fault \in DeleteFaults :
         IF HasFile(sync.files, slug)
         THEN /\ sync' = [sync EXCEPT !.todoDocs = @ \ {slug}]
              /\ UNCHANGED <<fs, docs, lastOp, clean>>
         ELSE LET r == DocsDelete(docs, fs, slug, dbOk, fault) IN
              /\ fs' = r.fs
              /\ docs' = r.docs
              /\ lastOp' = Op("docs", "delete", slug, slug, sync.existingDocs[slug],
                              IF dbOk THEN fault ELSE "db", r, fs, sync.passes)
              /\ clean' = (clean /\ r.ok /\ fault = "none")
              /\ IF r.ok
                 THEN sync' = [sync EXCEPT !.todoDocs = @ \ {slug},
                                           !.report = Report("deleted", slug)]
                 ELSE \* payload.delete throws outside any try: catch of line 107
                      sync' = [sync EXCEPT !.pc = "exited", !.exit = 1, !.abort = "delete",
                                           !.failure = TRUE]
    /\ UNCHANGED <<metas, nops, api, pf, pending, live, bulk, genrun>>

\* lines 103-104: 'Sync complete', process.exit(0)
SyncExit ==
    /\ sync.pc = "delete"
    /\ sync.todoDocs = {}
    /\ sync' = [sync EXCEPT !.pc = "exited", !.exit = 0]
    /\ UNCHANGED <<fs, docs, metas, lastOp, clean, nops, api, pf, pending, live, bulk, genrun>>

\* The script runs on any store and any tree: records and files of the
\* slugs of SyncSlugs, or no docs directory at all.
InitSync ==
    /\ \E content \in Layouts, ds \in SUBSET SyncSlugs, ts \in SUBSET SyncSlugs,
          hasDocs \in BOOLEAN :
         \E tree \in [{ SlugFile(s) : s \in ts } -> Contents] :
            /\ hasDocs \/ ts = {}
            /\ docs = [s \in ds |-> "X"]
            /\ fs = IF hasDocs THEN TreeOf(content, tree)
                    ELSE [dirs |-> UNION { Prefixes(dirname(p)) : p \in PackageFiles },
                          files |-> [p \in PackageFiles |-> "pkg"]]
    /\ metas = <<>>
    /\ lastOp = NoOp
    /\ clean = Converged(fs, docs)
    /\ nops = 0
    /\ sync = SyncIdle
    /\ api = <<>>
    /\ pf = <<>>
    /\ pending = {}
    /\ live = {}
    /\ bulk = 0
    /\ genrun = <<>>

NextSync ==
    \/ SyncStart
    \/ SyncFind
    \/ SyncFile
    \/ SyncDelete
    \/ SyncExit

SpecSync == InitSync /\ [][NextSync]_vars

\* ------------------------------------------------------------ a large store
\* The script on a store of about a thousand records: the records and files
\* of sA and sB, and FindLimit - 1 or FindLimit further records, each of
\* which has its file in the docs directory with the content of the record.
PageSlugs == {sA, sB}

InitPage ==
    /\ \E content \in Layouts, ds \in SUBSET PageSlugs, ts \in SUBSET PageSlugs,
          n \in {FindLimit - 1, FindLimit} :
         \E tree \in [{ SlugFile(s) : s \in ts } -> Contents] :
            /\ docs = [s \in ds |-> "X"]
            /\ fs = TreeOf(content, tree)
            /\ bulk = n
    /\ metas = <<>>
    /\ lastOp = NoOp
    /\ clean = FALSE
    /\ nops = 0
    /\ sync = SyncIdle
    /\ api = <<>>
    /\ pf = <<>>
    /\ pending = {}
    /\ live = {}
    /\ genrun = <<>>

NextPage ==
    \/ SyncStart
    \/ SyncFind
    \/ SyncFurther
    \/ SyncFile
    \/ SyncDelete
    \/ SyncExit

SpecPage == InitPage /\ [][NextPage]_vars

\* ------------------------------------------------- the script beside the CMS
\* The script is a process of its own on the same store and tree: while it
\* runs, the CMS goes on serving creates, each mirrored by its hook. The
\* processes interleave at the awaits of syncDocs.
NextLive ==
    \/ CreateDoc
    \/ SyncStart
    \/ SyncFind
    \/ SyncFile
    \/ SyncDelete
    \/ SyncExit

SpecLive == Init /\ [][NextLive]_vars

\* ------------------------------------------------------ concurrent requests
\* Two requests on the Docs collection: each writes the record to the store
\* and then has Docs.hooks.afterChange called with the record it wrote.
\* Docs.ts holds no lock and no queue, so between the store write of a
\* request and the call of its hook the other request can do either.
MaxCommits == 2

\* the store write of a create (new slug) or of an update of the content
ConcCommit ==
    /\ nops < MaxCommits
    /\ \E slug \in Slugs, content \in Contents :
         /\ docs' = Put(docs, slug, content)
         /\ pending' = pending \cup
                {[n |-> nops + 1, slug |-> slug, content |-> content,
                  operation |-> IF slug \in DOMAIN docs THEN "update" ELSE "create"]}
    /\ nops' = nops + 1
    /\ UNCHANGED <<fs, metas, lastOp, clean, sync, api, pf, live, bulk, genrun>>

\* the afterChange hook of one of the committed mutations runs
ConcHook ==
    /\ \E m \in pending, fault \in ChangeFaults :
         LET h == DocsAfterChange(fs, [slug |-> m.slug, content |-> m.content],
                                  m.operation, fault)
             r == [ok |-> ~h.threw, threw |-> h.threw, fs |-> h.fs]
         IN  /\ fs' = h.fs
             /\ pending' = pending \ {m}
             /\ lastOp' = Op("docs", m.operation, m.slug, m.slug, m.content,
                             fault, r, fs, 0)
             /\ clean' = (clean /\ fault = "none" /\ ~h.threw)
    /\ UNCHANGED <<docs, metas, nops, sync, api, pf, live, bulk, genrun>>

NextConc ==
    \/ ConcCommit
    \/ ConcHook

SpecConc == Init /\ [][NextConc]_vars

\* ---------------------------------------------------------- spec ingestion
\* unnamed/part_000: the collection 'api-specs' and its afterChange hook.
\* The hook suspends at `await fetch` and at `await response.json()`; what
\* follows the second await (writeFileSync, execSync, console.log) is
\* synchronous and runs with no other hook in between.
MaxRuns == 2

UNSET == ""
SpecUrls == {UNSET, "U1"}
Specs == {"S1", "S2"}
FetchOutcomes == {"network", "status", "ok"}
GenOutcomes == {"ok", "nonzero", "nostart"}

\* join(process.cwd(), '..', 'doc', 'public', 'swagger.json')
swaggerPath == join(cwd, <<PARENT, N("doc"), N("public"), N("swagger.json")>>)

\* JSON.stringify(spec, null, 2): the text the canonical file gets
stringify(spec) == IF spec = "S1" THEN "{S1}" ELSE IF spec = "S2" THEN "{S2}" ELSE "null"

\* the canonical file as the generator finds it
SwaggerText(f) == IF IsFile(f, swaggerPath) THEN f.files[swaggerPath] ELSE "absent"

\* line 42: operation === 'create' || operation === 'update' && doc.specUrl
ApiTriggers(operation, specUrl) ==
    operation = "create" \/ (operation = "update" /\ specUrl # UNSET)

\* one call of the hook, before its condition is evaluated
ApiRun(operation, specUrl) ==
    [operation |-> operation, specUrl |-> specUrl, pc |-> "start",
     fetched |-> FALSE, spec |-> "", wrote |-> FALSE, generated |-> FALSE,
     genSaw |-> "", exit |-> "", failure |-> "none", log |-> "none",
     threw |-> FALSE]

\* the hook as it would be without its try/catch
ApiCatch_Rethrow(run, failure) ==
    [run EXCEPT !.pc = "done", !.failure = failure, !.threw = TRUE]

\* lines 57-59: the catch logs the error and the hook returns
ApiCatch(run, failure) ==
    [run EXCEPT !.pc = "done", !.failure = failure, !.log = "error"]

\* lines 42-45: the condition and the call of fetch(doc.specUrl)
ApiEnter(run) ==
    IF ApiTriggers(run.operation, run.specUrl)
    THEN [run EXCEPT !.pc = "fetch", !.fetched = TRUE]
    ELSE [run EXCEPT !.pc = "done"]

\* lines 45-47: the response arrives; fetch of no URL rejects
ApiFetched(run, outcome) ==
    IF run.specUrl = UNSET \/ outcome = "network" THEN ApiCatch(run, "network")
    ELSE IF outcome = "status" THEN ApiCatch(run, "status")
    ELSE [run EXCEPT !.pc = "json"]

\* lines 50-56 as they would be if a failed generator removed the file
ApiWriteAndGenerate_Cleanup(f, run, spec, wfault, gen) ==
    LET w == writeFileSync(f, swaggerPath, stringify(spec), wfault)
        r == [run EXCEPT !.spec = spec]
    IN  IF ~w.ok THEN [fs |-> f, run |-> ApiCatch(r, "write")]
        ELSE LET g == [r EXCEPT !.wrote = TRUE, !.generated = TRUE, !.exit = gen,
                                !.genSaw = SwaggerText(w.fs)] IN
             IF gen = "ok"
             THEN [fs |-> w.fs, run |-> [g EXCEPT !.pc = "done", !.log = "generated"]]
             ELSE [fs |-> unlinkSync(w.fs, swaggerPath, FALSE).fs,
                   run |-> ApiCatch(g, "generator")]

\* lines 50-56 as they would be with the generator started before the write
ApiWriteAndGenerate_GenFirst(f, run, spec, wfault, gen) ==
    LET w == writeFileSync(f, swaggerPath, stringify(spec), wfault)
        g == [run EXCEPT !.spec = spec, !.generated = TRUE, !.exit = gen,
                         !.genSaw = SwaggerText(f)]
    IN  IF gen # "ok" THEN [fs |-> f, run |-> ApiCatch(g, "generator")]
        ELSE IF ~w.ok THEN [fs |-> f, run |-> ApiCatch(g, "write")]
        ELSE [fs |-> w.fs, run |-> [g EXCEPT !.wrote = TRUE, !.pc = "done",
                                               !.log = "generated"]]

\* lines 50-56: writeFileSync of the parsed spec, then execSync of the
\* generator (gen: how the child process ends), then the log line
ApiWriteAndGenerate(f, run, spec, wfault, gen) ==
    LET w == writeFileSync(f, swaggerPath, stringify(spec), wfault)
        r == [run EXCEPT !.spec = spec]
    IN  IF ~w.ok THEN [fs |-> f, run |-> ApiCatch(r, "write")]
        ELSE LET g == [r EXCEPT !.wrote = TRUE, !.generated = TRUE, !.exit = gen,
                                !.genSaw = SwaggerText(w.fs)] IN
             IF gen = "ok"
             THEN [fs |-> w.fs, run |-> [g EXCEPT !.pc = "done", !.log = "generated"]]
             ELSE [fs |-> w.fs, run |-> ApiCatch(g, "generator")]

\* A create or an update of an ApiSpecRecord is committed and the hook is
\* called with the record; an update needs a record.
ApiChange ==
    /\ Len(api.runs) < MaxRuns
    /\ \E operation \in {"create", "update"}, specUrl \in SpecUrls :
         /\ operation = "update" => api.recs > 0
         /\ api' = [runs |-> Append(api.runs, ApiEnter(ApiRun(operation, specUrl))),
                    recs |-> IF operation = "create" THEN api.recs + 1 ELSE api.recs]
    /\ UNCHANGED <<fs, docs, metas, lastOp, clean, nops, sync, pf, pending, live, bulk, genrun>>

\* `await fetch(...)` of one of the suspended hooks settles
ApiFetch ==
    /\ \E i \in DOMAIN api.runs, outcome \in FetchOutcomes :
         /\ api.runs[i].pc = "fetch"
         /\ api' = [api EXCEPT !.runs[i] = ApiFetched(@, outcome)]
    /\ UNCHANGED <<fs, docs, metas, lastOp, clean, nops, sync, pf, pending, live, bulk, genrun>>

\* `await response.json()` of one of the suspended hooks settles: the body
\* is no JSON, or it is a spec, which is written and given to the generator
ApiJson ==
    /\ \E i \in DOMAIN api.runs, isJson \in BOOLEAN :
         /\ api.runs[i].pc = "json"
         /\ IF ~isJson
            THEN /\ api' = [api EXCEPT !.runs[i] = ApiCatch(@, "notjson")]
                 /\ fs' = fs
            ELSE \E spec \in Specs, wfault \in BOOLEAN, gen \in GenOutcomes :
                   LET r == ApiWriteAndGenerate(fs, api.runs[i], spec, wfault, gen) IN
                   /\ api' = [api EXCEPT !.runs[i] = r.run]
                   /\ fs' = r.fs
    /\ UNCHANGED <<docs, metas, lastOp, clean, nops, sync, pf, pending, live, bulk, genrun>>

\* The CMS runs beside the doc package; doc/public exists or not, and the
\* canonical file may be there from an earlier run.
InitApi ==
    /\ \E hasPublic \in BOOLEAN, old \in {"absent", "{S1}"}, recs \in 0..1 :
         /\ old # "absent" => hasPublic
         /\ fs = [dirs  |-> UNION { Prefixes(dirname(p)) : p \in PackageFiles }
                              \cup (IF hasPublic THEN {dirname(swaggerPath)} ELSE {}),
                  files |-> [p \in PackageFiles \cup (IF old = "absent" THEN {} ELSE {swaggerPath})
                               |-> IF p \in PackageFiles THEN "pkg" ELSE old]]
         /\ api = [runs |-> <<>>, recs |-> recs]
    /\ docs = <<>>
    /\ metas = <<>>
    /\ lastOp = NoOp
    /\ clean = TRUE
    /\ nops = 0
    /\ sync = SyncIdle
    /\ pf = <<>>
    /\ pending = {}
    /\ live = {}
    /\ bulk = 0
    /\ genrun = <<>>

NextApi ==
    \/ ApiChange
    \/ ApiFetch
    \/ ApiJson

SpecApi == InitApi /\ [][NextApi]_vars

\* ------------------------------------------------------------- frontmatter
\* parseFrontmatter of sync-docs.ts and Docs.ts (the same code). A text is a
\* sequence of tokens: the three dashes, the line feed, ':', the space, the
\* double quote, the words true and false, a digit and letters.
MaxVal == 3

DASHES == "---"
NL == "\n"
COLON == ":"
SP == " "
QUOTE == "\""
Quotes == {QUOTE, "'"}
Digits == {"7"}

\* the first index from `from` on at which `pat` occurs in `text`, 0 if none
IndexOf(text, pat, from) ==
    LET hits == { i \in from..(Len(text) - Len(pat) + 1) :
                     SubSeq(text, i, i + Len(pat) - 1) = pat }
    IN  IF hits = {} THEN 0 ELSE CHOOSE i \in hits : \A j \in hits : i <= j

\* String.prototype.split(sep): the pieces between the separators
RECURSIVE split(_, _)
split(text, sep) ==
    LET i == IndexOf(text, <<sep>>, 1) IN
    IF i = 0 THEN <<text>>
    ELSE <<SubSeq(text, 1, i - 1)>> \o split(SubSeq(text, i + 1, Len(text)), sep)

\* Array.prototype.join(sep)
RECURSIVE joinWith(_, _)
joinWith(parts, sep) ==
    IF parts = <<>> THEN <<>>
    ELSE IF Len(parts) = 1 THEN parts[1]
    ELSE parts[1] \o <<sep>> \o joinWith(Tail(parts), sep)

\* String.prototype.trim()
RECURSIVE trim(_)
trim(text) ==
    IF text = <<>> THEN text
    ELSE IF Head(text) \in {SP, NL} THEN trim(Tail(text))
    ELSE IF Last(text) \in {SP, NL} THEN trim(Front(text))
    ELSE text

\* the match as it would be without the anchor ^---\n
match_Unanchored(content) ==
    LET close == IndexOf(content, <<NL, DASHES, NL>>, 1) IN
    IF close # 0
    THEN [ok |-> TRUE,
          frontmatter |-> SubSeq(content, 1, close - 1),
          body |-> SubSeq(content, close + 3, Len(content))]
    ELSE [ok |-> FALSE, frontmatter |-> <<>>, body |-> <<>>]

\* content.match(/^---\n([\s\S]*?)\n---\n([\s\S]*)$/): the text opens with
\* "---\n"; the lazy group ends at the first "\n---\n" after it
match(content) ==
    LET close == IndexOf(content, <<NL, DASHES, NL>>, 3) IN
    IF Len(content) >= 2 /\ SubSeq(content, 1, 2) = <<DASHES, NL>> /\ close # 0
    THEN [ok |-> TRUE,
          frontmatter |-> SubSeq(content, 3, close - 1),
          body |-> SubSeq(content, close + 3, Len(content))]
    ELSE [ok |-> FALSE, frontmatter |-> <<>>, body |-> <<>>]

\* !isNaN(Number(val)) for a trimmed val: the empty string is 0, a numeral
\* is its number
isNumber(val) == \A i \in DOMAIN val : val[i] \in Digits
Number(val) == IF val = <<>> THEN <<"0">> ELSE val

\* val.replace(/^["']|["']$/g, ''): a quote at the start is removed, and a
\* quote at the end of what follows it
stripQuotes(val) ==
    LET a == IF val # <<>> /\ Head(val) \in Quotes THEN Tail(val) ELSE val
    IN  IF a # <<>> /\ Last(a) \in Quotes THEN Front(a) ELSE a

\* the coercion as it would be with the quotes stripped first
coerce_StripFirst(val) ==
    LET v == stripQuotes(val) IN
    IF v = <<"true">> THEN [t |-> "boolean", v |-> <<"true">>]
    ELSE IF v = <<"false">> THEN [t |-> "boolean", v |-> <<"false">>]
    ELSE IF isNumber(v) THEN [t |-> "number", v |-> Number(v)]
    ELSE [t |-> "string", v |-> v]

\* lines 19-22: the value a trimmed val is stored as
coerce(val) ==
    IF val = <<"true">> THEN [t |-> "boolean", v |-> <<"true">>]
    ELSE IF val = <<"false">> THEN [t |-> "boolean", v |-> <<"false">>]
    ELSE IF isNumber(val) THEN [t |-> "number", v |-> Number(val)]
    ELSE [t |-> "string", v |-> stripQuotes(val)]

\* lines 15-24: the forEach over the lines; a later line replaces the entry
\* of an earlier one with the same key
RECURSIVE parseLines(_, _)
parseLines(lines, data) ==
    IF lines = <<>> THEN data
    ELSE LET parts == split(Head(lines), COLON)
             key == parts[1]
             value == Tail(parts)
         IN  parseLines(Tail(lines),
                        IF key # <<>> /\ Len(value) > 0
                        THEN Put(data, trim(key), coerce(trim(joinWith(value, COLON))))
                        ELSE data)

parseFrontmatter(content) ==
    LET m == match(content) IN
    IF ~m.ok THEN [data |-> <<>>, body |-> content]
    ELSE [data |-> parseLines(split(m.frontmatter, NL), <<>>), body |-> m.body]

\* the texts parsed: a metadata line of a key, a colon and a value of at
\* most MaxVal tokens (or a line with no colon), alone or before the line
\* k:7, laid out as a delimited block or as one of its malformed variants
RECURSIVE SeqsUpTo(_, _)
SeqsUpTo(S, n) ==
    IF n = 0 THEN {<<>>}
    ELSE LET shorter == SeqsUpTo(S, n - 1) IN
         shorter \cup { Append(q, x) : q \in shorter, x \in S }

ValTokens == {"true", "7", "k", QUOTE, COLON, SP}
Vals == SeqsUpTo(ValTokens, MaxVal)
           \cup { <<"false">>, <<SP, "false", SP>>, <<QUOTE, "false", QUOTE>>,
                  <<QUOTE, "true", QUOTE, SP>>, <<SP, QUOTE, "7", QUOTE>>,
                  <<"k", COLON, "k", COLON, "k">> }
Keys == { <<>>, <<SP>>, <<"k">>, <<SP, "j", SP>> }
Lines == { k \o <<COLON>> \o v : k \in Keys, v \in Vals } \cup Keys
Bodies == { <<>>, <<"k", NL, DASHES, NL, "k">> }
Shapes == {"block", "open", "unclosed", "noopen", "nobreak"}

Layout(shape, lines, body) ==
    LET fm == joinWith(lines, NL) IN
    CASE shape = "block"    -> <<DASHES, NL>> \o fm \o <<NL, DASHES, NL>> \o body
      [] shape = "open"     -> <<DASHES, NL>> \o fm \o <<NL, DASHES>>
      [] shape = "unclosed" -> <<DASHES, NL>> \o fm \o <<NL>> \o body
      [] shape = "noopen"   -> fm \o <<NL, DASHES, NL>> \o body
      [] shape = "nobreak"  -> <<DASHES>> \o fm \o <<NL, DASHES, NL>> \o body

InitParse ==
    /\ \E shape \in Shapes, line \in Lines, more \in BOOLEAN, body \in Bodies :
         pf = [text |-> Layout(shape, IF more THEN <<line, <<"k", COLON, "7">> >>
                                      ELSE <<line>>, body),
               done |-> FALSE, out |-> [data |-> <<>>, body |-> <<>>]]
    /\ fs = [dirs |-> {}, files |-> <<>>]
    /\ docs = <<>>
    /\ metas = <<>>
    /\ lastOp = NoOp
    /\ clean = TRUE
    /\ nops = 0
    /\ sync = SyncIdle
    /\ api = <<>>
    /\ pending = {}
    /\ live = {}
    /\ bulk = 0
    /\ genrun = <<>>

\* parseFrontmatter(content) is called on the text
Parse ==
    /\ ~pf.done
    /\ pf' = [pf EXCEPT !.done = TRUE, !.out = parseFrontmatter(pf.text)]
    /\ UNCHANGED <<fs, docs, metas, lastOp, clean, nops, sync, api, pending, live, bulk, genrun>>

NextParse ==
    \/ Parse

SpecParse == InitParse /\ [][NextParse]_vars

\* ===================================================================
\* Properties
\* ===================================================================

\* the file a ContentRecord of slug s is mirrored to, in tree f
DocFile(f, s) == join(docsDirOf(f), SlugFile(s))

\* C1: once a reconciliation pass has completed with no per-item failure,
\* the slugs of the store are the slugs of the content files on disk and
\* every record holds its file's raw content.
C1_ReconcileConverges ==
    (sync.pc = "exited" /\ sync.exit = 0 /\ sync.report.failed = {})
        => Converged(fs, docs)

\* C2: after a successful create or update of a ContentRecord (slug s,
\* content c) the file <docs>/s.mdx exists, below existing directories, and
\* holds exactly c.
C2_MirrorAfterMutation ==
    (lastOp.coll = "docs" /\ lastOp.op \in {"create", "update"} /\ lastOp.ok)
        => LET p == join(lastOp.docsDir, SlugFile(lastOp.key)) IN
           /\ IsFile(fs, p)
           /\ fs.files[p] = lastOp.content
           /\ \A q \in Prefixes(dirname(p)) : q \in fs.dirs

C2_Witness ==
    /\ lastOp.coll = "docs" /\ lastOp.op = "create" /\ lastOp.ok
    /\ lastOp.key = sGHC /\ lastOp.content = "Y"
    /\ IsFile(fs, DocFile(fs, sGHC)) /\ fs.files[DocFile(fs, sGHC)] = "Y"
    /\ sync.pc = "idle"

\* C3: starting converged, with no I/O failure, after any sequence of
\* creates, updates (slug changes included) and deletes the .mdx files are
\* the records' files and each holds its record's content.
C3_MirrorKeepsConverged == clean => Converged(fs, docs)

\* C4: in a pass a failed create or update is logged and its slug skipped,
\* the pass does not abort because of it, and a pass that ends with exit
\* code 0 has visited every file and deleted every record that has no file.
C4_CreateUpdateFailureSkipped ==
    /\ (sync.passes > 0 /\ lastOp.pass = sync.passes
           /\ lastOp.op \in {"create", "update"} /\ ~lastOp.ok)
          => /\ lastOp.key \in sync.report.failed
             /\ sync.pc = "exited" => (sync.exit = 0 \/ sync.abort = "read")
    /\ (sync.pc = "exited" /\ sync.exit = 0)
          => /\ sync.todoFiles = {}
             /\ \A s \in DOMAIN sync.existingDocs :
                   ~HasFile(sync.files, s) => (s \in sync.report.deleted /\ s \notin DOMAIN docs)

C4_Witness ==
    /\ sync.pc = "exited" /\ sync.exit = 0
    /\ sync.report.failed # {}
    /\ sync.report.created \cup sync.report.updated # {}
    /\ sync.report.deleted # {}

\* C5: a failed delete is logged and skipped, so that a pass ends with a
\* non-zero exit code only when the record store could not be reached.
C5_DeleteFailureSkipped ==
    (sync.pc = "exited" /\ sync.exit # 0) => sync.abort = "store"

\* C6: when directory creation or file write fails in the mirror hook of a
\* create or update (Docs or Meta), the hook returns normally, the mutation
\* succeeds for its caller and the record is in the store.
C6_HookFailureCaught ==
    (lastOp.op \in {"create", "update"} /\ lastOp.fault \in {"mkdir", "write"})
        => /\ ~lastOp.threw
           /\ lastOp.ok
           /\ LET store == IF lastOp.coll = "docs" THEN docs ELSE metas IN
              lastOp.key \in DOMAIN store /\ store[lastOp.key] = lastOp.content

\* C7: the cleanup after a ContentRecord delete removes only directories
\* strictly below the docs directory, never the docs directory or one above.
C7_CleanupStopsAtRoot ==
    (lastOp.coll = "docs" /\ lastOp.op = "delete")
        => \A d \in lastOp.removed : IsStrictPrefix(lastOp.docsDir, d)

\* C8: when the delete hook removes a record's file, every ancestor
\* directory below the docs directory that is left with nothing below it is
\* removed, no other file is deleted or changed, and every directory that
\* still has a file or another directory below it is preserved.
OnlyHolds(f, a, target) ==
    /\ \A p \in DOMAIN f.files : IsPrefix(a, p) => p = target
    /\ \A d \in f.dirs : IsStrictPrefix(a, d) => IsStrictPrefix(d, target)

C8_Step ==
    (docs' # docs /\ lastOp'.coll = "docs" /\ lastOp'.op = "delete"
        /\ lastOp'.fault = "none" /\ IsFile(fs, DocFile(fs, lastOp'.key)))
    => LET target == DocFile(fs, lastOp'.key) IN
       /\ DOMAIN fs'.files = DOMAIN fs.files \ {target}
       /\ \A p \in DOMAIN fs'.files : fs'.files[p] = fs.files[p]
       /\ \A a \in Prefixes(dirname(target)) :
             (IsStrictPrefix(docsDirOf(fs), a) /\ OnlyHolds(fs, a, target)) => a \notin fs'.dirs
       /\ \A d \in fs.dirs :
             ~(IsStrictPrefix(d, target) /\ OnlyHolds(fs, d, target)) => d \in fs'.dirs
       /\ fs'.dirs \subseteq fs.dirs

\* C8: every step in which the delete hook removes a record's file cleans
\* up exactly the emptied ancestor directories, as stated by C8_Step.
C8_EmptyDirCleanup == [][C8_Step]_vars

C8_Witness ==
    /\ lastOp.coll = "docs" /\ lastOp.op = "delete" /\ lastOp.key = sGHC
    /\ lastOp.fault = "none"
    /\ lastOp.removed = { lastOp.docsDir \o <<N("g")>>, lastOp.docsDir \o <<N("g"), N("h")>> }
    /\ IsFile(fs, DocFile(fs, sA))

\* C9: after the delete of a MetaRecord of path p the file <docs>/p/meta.json
\* is gone and no ancestor directory is left empty: the cleanup of
\* removeEmptyDirs has nothing left to remove.
C9_MetaDeleteCleansUp ==
    (lastOp.coll = "meta" /\ lastOp.op = "delete" /\ lastOp.fault = "none")
        => LET p == MetaFile(fs, lastOp.key) IN
           /\ ~IsFile(fs, p)
           /\ removeEmptyDirs(fs, dirname(p), FALSE) = fs

\* C10: in every reachable tree, running a change hook a second time for
\* the same record and content leaves the tree the first run made, and a
\* delete hook on an absent file, or run twice, raises no error and changes
\* nothing.
C10_HooksIdempotent ==
    /\ \A s \in Slugs, c \in Contents, op \in {"create", "update"} :
          LET d == [slug |-> s, content |-> c]
              r1 == DocsAfterChange(fs, d, op, "none")
              r2 == DocsAfterChange(r1.fs, d, op, "none")
          IN  r2.fs = r1.fs /\ r2.threw = r1.threw
    /\ \A k \in MetaPaths, c \in Contents, op \in {"create", "update"} :
          LET d == [path |-> k, content |-> c]
              r1 == MetaAfterChange(fs, d, op, "none")
              r2 == MetaAfterChange(r1.fs, d, op, "none")
          IN  r2.fs = r1.fs /\ r2.threw = r1.threw
    /\ \A s \in Slugs :
          LET d == [slug |-> s, content |-> "X"]
              r1 == DocsAfterDelete(fs, d, "none")
              r2 == DocsAfterDelete(r1.fs, d, "none")
          IN  /\ ~r1.threw /\ ~r2.threw /\ r2.fs = r1.fs
              /\ ~IsFile(fs, DocFile(fs, s)) => r1.fs = fs
    /\ \A k \in MetaPaths :
          LET d == [path |-> k, content |-> "X"]
              r1 == MetaAfterDelete(fs, d, "none")
              r2 == MetaAfterDelete(r1.fs, d, "none")
          IN  /\ ~r1.threw /\ ~r2.threw /\ r2.fs = r1.fs
              /\ ~IsFile(fs, MetaFile(fs, k)) => r1.fs = fs

\* a change hook fired again for an unchanged record left the tree as it was
C10_Witness ==
    /\ lastOp.coll = "docs" /\ lastOp.op = "update" /\ lastOp.ok
    /\ lastOp.from = lastOp.key /\ lastOp.key = sGA
    /\ lastOp.content = "X" /\ nops = 1
    /\ lastOp.same

C12_Step ==
    \A i \in DOMAIN api.runs :
       (api.runs[i].pc \in {"fetch", "json"}
           /\ api'.runs[i].failure \in {"network", "status", "notjson"})
       => /\ api'.runs[i].pc = "done"
          /\ ~api'.runs[i].threw
          /\ api'.runs[i].log = "error"
          /\ ~api'.runs[i].wrote
          /\ ~api'.runs[i].generated
          /\ fs' = fs

\* C12: every step in which a fetch fails is as stated by C12_Step.
C12_FetchFailureNonFatal == [][C12_Step]_vars

C12_Witness ==
    /\ Len(api.runs) = 2
    /\ api.runs[1].failure = "notjson" /\ api.runs[1].specUrl # UNSET
    /\ api.runs[2].failure = "status" /\ api.runs[2].pc = "done"
    /\ SwaggerText(fs) = "{S1}"

\* C13: the step in which the generator of a run fails (non-zero exit or
\* no start) ends the hook normally with an error logged, and the canonical
\* file holds the spec the run wrote just before.
C13_Step ==
    \A i \in DOMAIN api.runs :
       (api.runs[i].pc = "json" /\ api'.runs[i].failure = "generator")
       => /\ api'.runs[i].pc = "done"
          /\ ~api'.runs[i].threw
          /\ api'.runs[i].log = "error"
          /\ api'.runs[i].wrote
          /\ SwaggerText(fs') = stringify(api'.runs[i].spec)

\* C13: every step in which the generator fails is as stated by C13_Step.
C13_GeneratorFailureNonFatal == [][C13_Step]_vars

C13_Witness ==
    /\ Len(api.runs) = 2
    /\ api.runs[1].failure = "generator" /\ api.runs[1].exit = "nonzero"
    /\ api.runs[2].failure = "generator" /\ api.runs[2].exit = "nostart"
    /\ api.runs[2].spec = "S2" /\ SwaggerText(fs) = "{S2}"

\* C14: whatever the interleaving of the runs, a run that has invoked the
\* generator had written the canonical file before, and at the invocation
\* the file held the spec that run had fetched.
C14_GeneratorAfterWrite ==
    \A i \in DOMAIN api.runs :
       api.runs[i].generated
          => /\ api.runs[i].wrote
             /\ api.runs[i].genSaw = stringify(api.runs[i].spec)

\* a later run wrote S2 and generated while an earlier one, which then
\* wrote S1 and generated, was suspended
C14_Witness ==
    /\ Len(api.runs) = 2
    /\ api.runs[1].generated /\ api.runs[1].spec = "S1"
    /\ api.runs[2].generated /\ api.runs[2].spec = "S2"
    /\ SwaggerText(fs) = "{S1}"

\* C15: a pass that has run on a tree with no content file (no docs
\* directory at all, or a docs directory with no .mdx entry) and has ended
\* without failure leaves no record in the store.
C15_EmptyTreeDeletesAll ==
    /\ sync.pc = "returned" => DOMAIN docs = {}
    /\ (sync.pc = "exited" /\ sync.exit = 0 /\ sync.files = {}) => DOMAIN docs = {}

\* C16: when every record has been mirrored to the tree by the afterChange
\* hook (clean) and a pass runs with no create beside it (live = {}), no
\* step of the pass changes the store: no record is deleted, created or
\* updated.
C16_Step ==
    (clean /\ live = {} /\ PassRunning /\ nops' = nops) => docs' = docs

\* C16: every step of a pass on a mirrored tree is as stated by C16_Step.
C16_RoundTrip == [][C16_Step]_vars

\* C20: a record created through the API while a pass is running is not
\* deleted by that pass, and a later pass that ends without failure leaves
\* the record in the store, store and tree converged.
C20_CreateDuringPass ==
    /\ \A s \in live : s \notin sync.report.deleted
    /\ (sync.passes > 1 /\ sync.pc = "exited" /\ sync.exit = 0
           /\ sync.report.failed = {})
          => (live \subseteq DOMAIN docs /\ Converged(fs, docs))

\* the part of a line before its first colon and the part after it
BeforeColon(line) == SubSeq(line, 1, IndexOf(line, <<COLON>>, 1) - 1)
AfterColon(line) == SubSeq(line, IndexOf(line, <<COLON>>, 1) + 1, Len(line))
IsEntry(line) == IndexOf(line, <<COLON>>, 1) > 1

\* what the trimmed value raw has to be stored as
Coerced(raw, e) ==
    IF raw \in {<<"true">>, <<"false">>} THEN e = [t |-> "boolean", v |-> raw]
    ELSE IF \A i \in DOMAIN raw : raw[i] \in Digits
    THEN e.t = "number" /\ (raw # <<>> => e.v = raw)
    ELSE /\ e.t = "string"
         /\ (Len(raw) >= 2 /\ Head(raw) \in Quotes /\ Last(raw) \in Quotes)
               => e.v = SubSeq(raw, 2, Len(raw) - 1)
         /\ (Head(raw) \notin Quotes /\ Last(raw) \notin Quotes) => e.v = raw

\* C17: the mapping of a parsed block has one entry per key; the entry of a
\* key comes from the last line with that key, split at its first colon:
\* exactly true or false is a boolean, otherwise a numeral is a number,
\* otherwise the value is a string without its surrounding quotes, so that
\* the quoted "true" is the string true.
C17_CoercionOrder ==
    (pf.done /\ match(pf.text).ok)
    => LET lines == split(match(pf.text).frontmatter, NL)
           data == pf.out.data
       IN  /\ DOMAIN data = { trim(BeforeColon(lines[i])) :
                                 i \in { j \in DOMAIN lines : IsEntry(lines[j]) } }
           /\ \A i \in DOMAIN lines :
                 (IsEntry(lines[i])
                    /\ \A j \in DOMAIN lines :
                          (j > i /\ IsEntry(lines[j]))
                             => trim(BeforeColon(lines[j])) # trim(BeforeColon(lines[i])))
                 => LET raw == trim(AfterColon(lines[i]))
                        e == data[trim(BeforeColon(lines[i]))]
                    IN  /\ Coerced(raw, e)
                        /\ raw = <<QUOTE, "true", QUOTE>>
                              => e = [t |-> "string", v |-> <<"true">>]

C17_Witness ==
    /\ pf.done
    /\ pf.text = <<DASHES, NL, SP, "j", SP, COLON, QUOTE, "true", QUOTE, SP, NL,
                   "k", COLON, "7", NL, DASHES, NL>>
    /\ pf.out.data = (<<"j">> :> [t |-> "string", v |-> <<"true">>])
                        @@ (<<"k">> :> [t |-> "number", v |-> <<"7">>])
    /\ pf.out.body = <<>>

\* a text that begins with a delimiter line followed, some lines later, by
\* a closing delimiter line
Delimited(text) ==
    LET lines == split(text, NL) IN
    /\ lines[1] = <<DASHES>>
    /\ \E i \in 2..Len(lines) : lines[i] = <<DASHES>>

\* C18: parseFrontmatter returns a result for every text, and for a text
\* that does not begin with a delimiter line followed by a closing
\* delimiter line the result is the empty mapping and the whole text as body.
C18_LenientParse ==
    /\ parseFrontmatter(pf.text).body \in Seq({DASHES, NL, COLON, SP, QUOTE, "true", "false", "7", "k", "j"})
    /\ (pf.done /\ ~Delimited(pf.text))
          => (pf.out.data = <<>> /\ pf.out.body = pf.text)

C18_Witness ==
    /\ pf.done
    /\ pf.text = <<"k", COLON, "true", NL, DASHES, NL, "k", NL, DASHES, NL, "k">>
    /\ pf.out = [data |-> <<>>, body |-> pf.text]

\* C19: once the hooks of all committed mutations have run, with no I/O
\* fault, the file of every slug holds the content of the record as last
\* committed.
C19_PerSlugLinearized ==
    (clean /\ pending = {})
        => \A s \in DOMAIN docs :
              /\ IsFile(fs, DocFile(fs, s))
              /\ fs.files[DocFile(fs, s)] = docs[s]

\* ------------------------------------------------ file names and Meta files
\* the file a.mdxb.mdx, in whose name '.mdx' also occurs before the extension
oddFile == <<"a", MDX, "b", MDX>>

\* the slug ab.mdx that file.replace('.mdx', '') makes of a.mdxb.mdx
sAB == << <<"a", "b", MDX>> >>
NameSlugs == {sA, sAB}
NameFiles == {SlugFile(sA), <<oddFile>>, <<N("g"), META_JSON>>}
NameMetaPaths == {<<N("g")>>}

\* A pass starts on any store of 'docs' and 'meta' records and any tree of
\* .mdx and meta.json files.
InitNames ==
    /\ \E ds \in SUBSET NameSlugs, ts \in SUBSET NameFiles, ms \in SUBSET NameMetaPaths :
         \E tree \in [ts -> Contents] :
            /\ docs = [s \in ds |-> "X"]
            /\ metas = [m \in ms |-> "X"]
            /\ fs = TreeOf(LocalContent, tree)
    /\ lastOp = NoOp
    /\ clean = FALSE
    /\ nops = 0
    /\ sync = SyncIdle
    /\ api = <<>>
    /\ pf = <<>>
    /\ pending = {}
    /\ live = {}
    /\ bulk = 0
    /\ genrun = <<>>

SpecNames == InitNames /\ [][NextSync]_vars

\* ------------------------------------------------------- slugs and paths
\* the slugs a, ../x and /x, and the Meta paths g/h, .. and /g
sUP == <<PARENT, N("x")>>
sABS == <<EMPTYNAME, N("x")>>
PathSlugs == {sA, sUP, sABS}
PathMetaPaths == {<<N("g"), N("h")>>, <<PARENT>>, <<EMPTYNAME, N("g")>>}

\* The tree with content root `content` in which the hooks have written the
\* files of the records of d and m.
PathTreeOf(content, d, m) ==
    LET docsDir == Append(content, N("docs"))
        df == { join(docsDir, SlugFile(s)) : s \in DOMAIN d }
        mf == { join(docsDir, Append(k, META_JSON)) : k \in DOMAIN m }
        all == df \cup mf \cup PackageFiles
    IN  [dirs  |-> UNION { Prefixes(dirname(p)) : p \in all } \cup Prefixes(docsDir),
         files |-> [p \in all |-> IF p \in PackageFiles THEN "pkg" ELSE "X"]]

InitPath ==
    /\ \E ds \in SUBSET PathSlugs, ms \in SUBSET PathMetaPaths :
         /\ docs = [s \in ds |-> "X"]
         /\ metas = [k \in ms |-> "X"]
         /\ fs = PathTreeOf(LocalContent, docs, metas)
    /\ lastOp = NoOp
    /\ clean = TRUE
    /\ nops = 0
    /\ sync = SyncIdle
    /\ api = <<>>
    /\ pf = <<>>
    /\ pending = {}
    /\ live = {}
    /\ bulk = 0
    /\ genrun = <<>>

\* payload.create on 'docs' with any slug the fields accept
PathCreateDoc ==
    /\ nops < MaxOps
    /\ \E slug \in PathSlugs, content \in Contents, fault \in ChangeFaults,
          rollback \in BOOLEAN :
         LET r == DocsCreate(docs, fs, [slug |-> slug, content |-> content],
                             TRUE, fault, rollback) IN
         /\ fs' = r.fs
         /\ docs' = r.docs
         /\ lastOp' = Op("docs", "create", slug, slug, content,
                         fault, r, fs, 0)
         /\ clean' = (clean /\ fault = "none" /\ ~r.threw)
    /\ nops' = nops + 1
    /\ UNCHANGED <<metas, sync, api, pf, pending, live, bulk, genrun>>

\* payload.create on 'meta' with any path the fields accept
PathCreateMeta ==
    /\ nops < MaxOps
    /\ \E path \in PathMetaPaths, content \in Contents, fault \in ChangeFaults,
          rollback \in BOOLEAN :
         LET r == MetaCreate(metas, fs, [path |-> path, content |-> content],
                             TRUE, fault, rollback) IN
         /\ fs' = r.fs
         /\ metas' = r.metas
         /\ lastOp' = Op("meta", "create", path, path, content,
                         fault, r, fs, 0)
         /\ clean' = (clean /\ fault = "none" /\ ~r.threw)
    /\ nops' = nops + 1
    /\ UNCHANGED <<docs, sync, api, pf, pending, live, bulk, genrun>>

NextPath ==
    \/ PathCreateDoc
    \/ PathCreateMeta
    \/ DeleteDoc
    \/ DeleteMeta

SpecPath == InitPath /\ [][NextPath]_vars

\* --------------------------------------------- doc/scripts/generate-api.ts
\* the number of times the script is run, one run after the other
MaxGenRuns == 2

\* the number of records in a list response
MaxDocs == 2

\* process.cwd() of the script: <root>/doc
genCwd == <<N("doc")>>

\* line 19: path.join(process.cwd(), "./content/docs/api")
outputPath == join(genCwd, <<DOT, N("content"), N("docs"), N("api")>>)

\* the pages generateFiles writes for a spec, and the specs there are
Pages == {<<"p1", MDX>>, <<"p2", MDX>>}
FirstPage == <<"p1", MDX>>
ListUrls == {"U1", "U2"}

\* the body of the list response: data.docs is absent, or a list of records
\* (each given by its specUrl)
DocLists == SeqsUpTo(ListUrls, MaxDocs)
ListBodies == {[has |-> FALSE, docs |-> <<>>]} \cup { [has |-> TRUE, docs |-> l] : l \in DocLists }
\* the fetch of the list rejects or settles with a status (ok: 2xx)
ResponseOutcomes == {"network", "200", "401", "500"}
GenFilesOutcomes == {"ok", "throws", "partial"}

\* an rmSync that leaves everything in place
rmSync_Keep(f, p) == f

\* line 21: fs.rmSync(p, {recursive: true, force: true})
rmSync(f, p) ==
    [dirs  |-> { d \in f.dirs : ~IsPrefix(p, d) },
     files |-> [q \in { r \in DOMAIN f.files : ~IsPrefix(p, r) } |-> f.files[q]]]

\* the pages `names` written with text c into directory dir, created with
\* its ancestors
WritePages(f, dir, names, c) ==
    LET new == { Append(dir, n) : n \in names } IN
    [dirs  |-> f.dirs \cup Prefixes(dir),
     files |-> [q \in DOMAIN f.files \cup new |-> IF q \in new THEN c ELSE f.files[q]]]

\* lines 62-80: generateFiles({input, output: "./content/docs/api", ...}) of
\* fumadocs-openapi: it writes the pages of the spec at `input`, or rejects
\* before writing, or rejects after it has written part of them
generateFiles(f, input, outcome) ==
    CASE outcome = "ok"      -> WritePages(f, outputPath, Pages, input)
      [] outcome = "partial" -> WritePages(f, outputPath, {FirstPage}, input)
      [] OTHER               -> f

\* what the output directory holds: page -> text
OutputOf(f) ==
    [n \in { Last(q) : q \in { r \in DOMAIN f.files : IsStrictPrefix(outputPath, r) } }
        |-> f.files[Append(outputPath, n)]]

GenIdle ==
    [pc |-> "idle", runs |-> 0, apiKey |-> FALSE, cleaned |-> FALSE, began |-> FALSE,
     status |-> "none", data |-> [has |-> FALSE, docs |-> <<>>], spec |-> UNSET,
     end |-> "none",
     threw |-> FALSE, log |-> "none"]

\* lines 83-88: the catch around the whole body logs the error's message as
\* a warning
GenCatch(run, error) == [run EXCEPT !.pc = "done", !.end = "error", !.log = error]

\* lines 30-33, 46-49, 54-57: a warning and return
GenReturn(run, why) == [run EXCEPT !.pc = "done", !.end = why, !.log = "warn"]

\* The script starts in package doc, with or without the output of an
\* earlier run.
InitGen ==
    /\ \E old \in {"none"} \cup GenFilesOutcomes, u \in ListUrls :
         LET base == [dirs  |-> UNION { Prefixes(dirname(p)) : p \in PackageFiles }
                                  \cup Prefixes(dirname(outputPath)),
                      files |-> [p \in PackageFiles |-> "pkg"]]
         IN  /\ fs = IF old = "none" THEN base ELSE generateFiles(base, u, old)
             /\ genrun = GenIdle
    /\ docs = <<>>
    /\ metas = <<>>
    /\ lastOp = NoOp
    /\ clean = FALSE
    /\ nops = 0
    /\ sync = SyncIdle
    /\ api = <<>>
    /\ pf = <<>>
    /\ pending = {}
    /\ live = {}
    /\ bulk = 0

\* lines 2-25: the .env file is read into process.env, the output directory
\* removed, up to `await import("fumadocs-openapi")`
GenStart ==
    /\ genrun.pc \in {"idle", "done"}
    /\ genrun.runs < MaxGenRuns
    /\ \E key \in BOOLEAN, envFault \in BOOLEAN, rmFault \in BOOLEAN :
         LET run == [GenIdle EXCEPT !.runs = genrun.runs + 1, !.apiKey = key] IN
         IF envFault
         THEN /\ genrun' = GenCatch(run, "env")
              /\ fs' = fs
         ELSE IF existsSync(fs, outputPath)
         THEN IF rmFault
              THEN /\ genrun' = GenCatch(run, "rm")
                   /\ fs' = fs
              ELSE /\ genrun' = [run EXCEPT !.pc = "import", !.cleaned = TRUE]
                   /\ fs' = rmSync(fs, outputPath)
         ELSE /\ genrun' = [run EXCEPT !.pc = "import", !.cleaned = TRUE]
              /\ fs' = fs
    /\ UNCHANGED <<docs, metas, lastOp, clean, nops, sync, api, pf, pending, live, bulk>>

\* lines 25-42: the import settles, the API key is tested, fetch is called
GenImport ==
    /\ genrun.pc = "import"
    /\ \E importFault \in BOOLEAN :
         genrun' = IF importFault THEN GenCatch(genrun, "import")
                   ELSE IF ~genrun.apiKey THEN GenReturn(genrun, "nokey")
                   ELSE [genrun EXCEPT !.pc = "fetch"]
    /\ UNCHANGED <<fs, docs, metas, lastOp, clean, nops, sync, api, pf, pending, live, bulk>>

\* lines 37-51: the fetch of the list settles
GenResponse ==
    /\ genrun.pc = "fetch"
    /\ \E outcome \in ResponseOutcomes :
         genrun' = CASE outcome = "network" -> GenCatch(genrun, "network")
                     [] outcome = "200"     -> [genrun EXCEPT !.pc = "json", !.status = outcome]
                     [] OTHER               -> GenReturn([genrun EXCEPT !.status = outcome],
                                                         "notok")
    /\ UNCHANGED <<fs, docs, metas, lastOp, clean, nops, sync, api, pf, pending, live, bulk>>

\* lines 54-59: the specUrl of data.docs[0], if data.docs is there and not
\* empty
GenSelect(data) == IF ~data.has \/ Len(data.docs) = 0 THEN UNSET ELSE data.docs[1]

\* lines 51-62: response.json() settles, the first record is taken and
\* generateFiles is called
GenJson ==
    /\ genrun.pc = "json"
    /\ \E notjson \in BOOLEAN, data \in ListBodies :
         genrun' = IF notjson THEN GenCatch(genrun, "notjson")
                   ELSE IF ~data.has \/ Len(data.docs) = 0
                   THEN GenReturn([genrun EXCEPT !.data = data], "nospecs")
                   ELSE [genrun EXCEPT !.pc = "generate", !.data = data,
                                        !.spec = GenSelect(data)]
    /\ UNCHANGED <<fs, docs, metas, lastOp, clean, nops, sync, api, pf, pending, live, bulk>>

\* lines 62-82: generateFiles settles
GenFiles ==
    /\ genrun.pc = "generate"
    /\ \E outcome \in GenFilesOutcomes :
         /\ fs' = generateFiles(fs, genrun.spec, outcome)
         /\ genrun' = IF outcome = "ok"
                      THEN [genrun EXCEPT !.pc = "done", !.end = "generated", !.log = "success"]
                      ELSE [GenCatch(genrun, "generateFiles") EXCEPT
                               !.began = (outcome = "partial")]
    /\ UNCHANGED <<docs, metas, lastOp, clean, nops, sync, api, pf, pending, live, bulk>>

NextGen ==
    \/ GenStart
    \/ GenImport
    \/ GenResponse
    \/ GenJson
    \/ GenFiles

SpecGen == InitGen /\ [][NextGen]_vars

\* ------------------------------------- the hook of ApiSpecs and its generator
\* the document served at a specUrl
SpecAt(u) == IF u = "U1" THEN "S1" ELSE "S2"

\* In this part `api` is the collection as the list endpoint returns it
\* (store: the records' specUrls, newest first), the record R the hook last
\* ran for (doc: its place in the list, 0: none), whether that hook wrote the
\* canonical file, and the number of the generator run its execSync starts.
ChainIdle(list) == [store |-> list, doc |-> 0, wrote |-> FALSE, run |-> 0]

InitChain ==
    /\ \E list \in DocLists :
         /\ api = ChainIdle(list)
         /\ fs = [dirs  |-> UNION { Prefixes(dirname(p)) : p \in PackageFiles }
                              \cup Prefixes(dirname(outputPath))
                              \cup Prefixes(dirname(swaggerPath)),
                  files |-> [p \in PackageFiles |-> "pkg"]]
    /\ genrun = GenIdle
    /\ docs = <<>>
    /\ metas = <<>>
    /\ lastOp = NoOp
    /\ clean = FALSE
    /\ nops = 0
    /\ sync = SyncIdle
    /\ pf = <<>>
    /\ pending = {}
    /\ live = {}
    /\ bulk = 0

\* part_000 lines 41-54: a create or an update of record R is committed and
\* the hook runs up to execSync: it fetches R's specUrl, writes the document
\* to the canonical file and starts scripts/generate-api.ts, for whose end
\* execSync waits
ChainChange ==
    /\ genrun.pc \in {"idle", "done"}
    /\ api.run <= genrun.runs
    /\ genrun.runs < MaxGenRuns
    /\ \E operation \in {"create", "update"}, url \in ListUrls,
          i \in 1..MaxDocs, outcome \in FetchOutcomes, wfault \in BOOLEAN :
         /\ operation = "create" => (i = 1 /\ Len(api.store) < MaxDocs)
         /\ operation = "update" => i <= Len(api.store)
         /\ LET list == IF operation = "create" THEN <<url>> \o api.store
                        ELSE [api.store EXCEPT ![i] = url]
                w == writeFileSync(fs, swaggerPath, stringify(SpecAt(url)), wfault)
            IN  IF outcome = "ok" /\ w.ok
                THEN /\ fs' = w.fs
                     /\ api' = [store |-> list, doc |-> i, wrote |-> TRUE,
                                run |-> genrun.runs + 1]
                ELSE /\ fs' = fs
                     /\ api' = [store |-> list, doc |-> i, wrote |-> FALSE,
                                run |-> api.run]
    /\ UNCHANGED <<docs, metas, lastOp, clean, nops, sync, pf, pending, live, bulk, genrun>>

NextChain ==
    \/ ChainChange
    \/ GenStart
    \/ GenImport
    \/ GenResponse
    \/ GenJson
    \/ GenFiles

SpecChain == InitChain /\ [][NextChain]_vars

\* ------------------------------------------------- doc/src/lib/openapi.ts
\* The body of a successful response of the list endpoint: the page object
\* of the CMS ({docs: [...], totalDocs, ...}) or a plain array of records;
\* docs are the records, each given by its specUrl.
ListResponses == { [kind |-> k, docs |-> l] : k \in {"page", "array"}, l \in DocLists }

\* generate-api.ts line 51-54: data.docs of the parsed body; an array has
\* no property docs
GenData(body) ==
    IF body.kind = "page" THEN [has |-> TRUE, docs |-> body.docs]
    ELSE [has |-> FALSE, docs |-> <<>>]

\* openapi.ts lines 12-15: specs.length > 0 and specs[0].specUrl on the
\* parsed body; a page object has no property length, and undefined > 0 is
\* false
InputSelect(body) ==
    IF body.kind = "array" /\ Len(body.docs) > 0 THEN body.docs[1] ELSE UNSET

EMPTYSPEC == "{}"
SpecFetchOutcomes == {"network", "notok", "notjson", "ok"}

\* In this part `api` is the list endpoint's answer (body) and a call of
\* openapi.input(): its place, the status of the list response, the specUrl
\* it fetches, what it returned and whether it threw.
InputIdle(body) ==
    [body |-> body, pc |-> "idle", status |-> "none", url |-> UNSET,
     specOk |-> FALSE, result |-> "none", threw |-> FALSE]

InitInput ==
    /\ \E body \in ListResponses : api = InputIdle(body)
    /\ fs = [dirs  |-> UNION { Prefixes(dirname(p)) : p \in PackageFiles },
             files |-> [p \in PackageFiles |-> "pkg"]]
    /\ docs = <<>>
    /\ metas = <<>>
    /\ lastOp = NoOp
    /\ clean = FALSE
    /\ nops = 0
    /\ sync = SyncIdle
    /\ pf = <<>>
    /\ pending = {}
    /\ live = {}
    /\ bulk = 0
    /\ genrun = <<>>

\* lines 4-7: input() is called and calls fetch on the list endpoint
InputCall ==
    /\ api.pc = "idle"
    /\ api' = [api EXCEPT !.pc = "list"]
    /\ UNCHANGED <<fs, docs, metas, lastOp, clean, nops, sync, pf, pending, live, bulk, genrun>>

\* lines 7-12: the fetch of the list settles; a rejection leaves input(),
\* which has no try/catch
InputList ==
    /\ api.pc = "list"
    /\ \E outcome \in ResponseOutcomes :
         api' = CASE outcome = "network" -> [api EXCEPT !.pc = "done", !.threw = TRUE]
                  [] outcome = "200"     -> [api EXCEPT !.pc = "json", !.status = outcome]
                  [] OTHER               -> [api EXCEPT !.pc = "done", !.status = outcome,
                                                        !.result = EMPTYSPEC]
    /\ UNCHANGED <<fs, docs, metas, lastOp, clean, nops, sync, pf, pending, live, bulk, genrun>>

\* lines 12-15, 20: response.json() settles with the body; the first
\* record's specUrl is fetched, or the empty spec returned
InputJson ==
    /\ api.pc = "json"
    /\ api' = IF InputSelect(api.body) = UNSET
              THEN [api EXCEPT !.pc = "done", !.result = EMPTYSPEC]
              ELSE [api EXCEPT !.pc = "spec", !.url = InputSelect(api.body)]
    /\ UNCHANGED <<fs, docs, metas, lastOp, clean, nops, sync, pf, pending, live, bulk, genrun>>

\* lines 15-20: the fetch of the spec and its json() settle
InputSpec ==
    /\ api.pc = "spec"
    /\ \E outcome \in SpecFetchOutcomes :
         api' = CASE outcome = "ok"    -> [api EXCEPT !.pc = "done", !.specOk = TRUE,
                                                      !.result = SpecAt(api.url)]
                  [] outcome = "notok" -> [api EXCEPT !.pc = "done", !.result = EMPTYSPEC]
                  [] OTHER             -> [api EXCEPT !.pc = "done", !.threw = TRUE,
                                                      !.specOk = (outcome = "notjson")]
    /\ UNCHANGED <<fs, docs, metas, lastOp, clean, nops, sync, pf, pending, live, bulk, genrun>>

NextInput ==
    \/ InputCall
    \/ InputList
    \/ InputJson
    \/ InputSpec

SpecInput == InitInput /\ [][NextInput]_vars

\* C21: whatever the size of the store, a pass that ends with exit code 0
\* has deleted every record that has no file, and calls payload.create for
\* no slug that has a record.
C21_FullRecordSet ==
    /\ (sync.pc = "exited" /\ sync.exit = 0)
          => \A s \in DOMAIN docs : HasFile(sync.files, s)
    /\ (sync.passes > 0 /\ lastOp.pass = sync.passes /\ lastOp.op = "create")
          => (lastOp.ok \/ lastOp.threw \/ lastOp.fault = "db")
    /\ BULK \notin sync.report.failed

\* C22: no step of a pass changes the tree: the files, their contents and
\* the directories are after the step what they were before it.
C22_Step == fs' = fs

\* C22: every step of a reconciliation pass is as stated by C22_Step.
C22_PassKeepsTree == [][C22_Step]_vars

\* the raw text of the file the pass lists for slug s
RawText(s) == fs.files[join(sync.docsDir, SlugFile(s))]

\* the slugs that the pass found both as a listed file and as a record, with
\* a record content other than the raw text of the file
Differing ==
    { s \in DOMAIN sync.existingDocs :
         HasFile(sync.files, s) /\ sync.existingDocs[s] # RawText(s) }

\* C23: the step of the pass for one listed file calls the update of the
\* record of the file's slug exactly when that record was found and its
\* content is not the raw text of the file; when the two are equal the step
\* changes nothing but the list of files still to visit.
C23_Step ==
    (sync.pc = "files" /\ sync'.todoFiles # sync.todoFiles)
    => LET file == CHOOSE f \in sync.todoFiles : f \notin sync'.todoFiles
           slug == <<RemoveFirst(file, MDX)>>
           raw == fs.files[join(sync.docsDir, <<file>>)]
           found == slug \in DOMAIN sync.existingDocs
       IN  /\ (lastOp' # lastOp /\ lastOp'.op = "update")
                 <=> (found /\ sync.existingDocs[slug] # raw)
           /\ (lastOp' # lastOp /\ lastOp'.op = "update")
                 => (lastOp'.key = slug /\ lastOp'.content = raw)
           /\ (found /\ sync.existingDocs[slug] = raw)
                 => /\ <<fs', docs', lastOp'>> = <<fs, docs, lastOp>>
                    /\ sync'.report = sync.report
           /\ sync'.report.updated \cup sync'.report.failed
                 = sync.report.updated \cup sync.report.failed
                      \cup (IF found /\ sync.existingDocs[slug] # raw THEN {slug} ELSE {})
                      \cup (sync'.report.failed \ sync.report.failed)
           /\ sync'.report.updated \subseteq Differing'

C24_DisjointSlugSets ==
    (sync.report.created \cup sync.report.updated) \cap sync.report.deleted = {}

\* the paths p for which the docs directory holds p/meta.json
MetaJsonPaths(f) ==
    LET docsDir == docsDirOf(f) IN
    { SubSeq(q, Len(docsDir) + 1, Len(q) - 1) :
        q \in { r \in DOMAIN f.files : IsStrictPrefix(docsDir, r) /\ Last(r) = META_JSON } }

\* C25: after a completed pass every Meta record has its meta.json in the
\* tree the pass read and every meta.json of that tree has a Meta record.
C25_MetaReconciled ==
    (sync.pc = "exited" /\ sync.exit = 0) => DOMAIN metas = MetaJsonPaths(fs)

\* C26: the mapping parseFrontmatter returns never holds the empty string
\* as a key.
C26_NoEmptyKey == pf.done => <<>> \notin DOMAIN pf.out.data

\* C27: a pass that follows a pass without failure, with nothing done in
\* between, creates, updates and deletes nothing.
C27_SecondPassIdle ==
    (sync.passes = 2 /\ ~sync.failure)
    => sync.report = [created |-> {}, updated |-> {}, deleted |-> {}, failed |-> {}]

\* C28: every file that a step writes or deletes and every directory that
\* it creates or removes lies inside the docs directory.
C28_Step ==
    LET docsDir == docsDirOf(fs) IN
    /\ \A p \in DOMAIN fs.files \cup DOMAIN fs'.files :
          (p \notin DOMAIN fs.files \/ p \notin DOMAIN fs'.files
              \/ fs'.files[p] # fs.files[p])
          => IsStrictPrefix(docsDir, p)
    /\ \A d \in (fs.dirs \ fs'.dirs) \cup (fs'.dirs \ fs.dirs) :
          IsStrictPrefix(docsDir, d)

\* C28: every step of a hook is as stated by C28_Step, whatever the slug or
\* the Meta path of the record.
C28_PathContainment == [][C28_Step]_vars

\* C29: once the runs of all committed mutations have finished, each having
\* written the spec it fetched, the canonical spec file holds the spec of
\* the mutation that committed last.
C29_LastMutationWins ==
    (api.runs # <<>>
        /\ \A i \in DOMAIN api.runs : api.runs[i].pc = "done" /\ api.runs[i].wrote)
    => SwaggerText(fs) = stringify(api.runs[Len(api.runs)].spec)

\* C30 as stated: generate() propagates no error; a run that ends without
\* generating, by one of the three returns or by an error thrown after the
\* cleanup, leaves no output directory; a run that generates leaves the
\* pages of its spec and nothing else.
C30_AsStated ==
    genrun.pc = "done"
    => /\ ~genrun.threw
       /\ (genrun.end \in {"nokey", "notok", "nospecs"} \/ (genrun.end = "error" /\ genrun.cleaned))
             => ~existsSync(fs, outputPath)
       /\ genrun.end = "generated" => OutputOf(fs) = [n \in Pages |-> genrun.spec]

\* C30: generate() propagates no error; a run that ends without generating,
\* by one of the three returns or by an error thrown after the cleanup and
\* before generateFiles has written a page, leaves no output directory; a
\* run that generates leaves the pages of its spec and nothing else.
C30_OutputAfterRun ==
    genrun.pc = "done"
    => /\ ~genrun.threw
       /\ (genrun.end \in {"nokey", "notok", "nospecs"}
              \/ (genrun.end = "error" /\ genrun.cleaned /\ ~genrun.began))
             => ~existsSync(fs, outputPath)
       /\ genrun.end = "generated" => OutputOf(fs) = [n \in Pages |-> genrun.spec]

\* a second run has ended, after its cleanup, in the catch of a list
\* response that is no JSON, and there is no output directory
C30_Witness ==
    /\ genrun.pc = "done" /\ genrun.runs = 2
    /\ genrun.end = "error" /\ genrun.log = "notjson" /\ genrun.status = "200"
    /\ genrun.cleaned /\ ~genrun.threw
    /\ ~existsSync(fs, outputPath)

\* a run has generated the pages of the first of two records over the
\* output an earlier run left
C30_GeneratedWitness ==
    /\ genrun.pc = "done" /\ genrun.runs = 2 /\ genrun.end = "generated"
    /\ genrun.data.docs = <<"U2", "U1">>
    /\ OutputOf(fs) = [n \in Pages |-> "U2"]

\* C31: when the generator run that the hook of record R started has
\* generated, having got the list of the store, the spec it generated from
\* is R's, the one the hook persisted at the canonical path.
C31_GeneratedFromPersisted ==
    (api.doc > 0 /\ api.wrote /\ api.run = genrun.runs
        /\ genrun.pc = "done" /\ genrun.end = "generated"
        /\ genrun.data.docs = api.store)
    => /\ genrun.spec = api.store[api.doc]
       /\ SwaggerText(fs) = stringify(SpecAt(genrun.spec))

\* C32: on a successful list response with at least one record, input()
\* fetches the specUrl that generate() selects from the same body, the first
\* record's, and when it returns the empty spec the fetch of that spec was
\* not OK.
C32_SameSelection ==
    (api.pc = "done" /\ api.status = "200" /\ Len(api.body.docs) > 0 /\ ~api.threw)
    => /\ api.url = api.body.docs[1]
       /\ GenSelect(GenData(api.body)) = api.url
       /\ api.result = EMPTYSPEC => ~api.specOk
       /\ api.result # EMPTYSPEC => api.result = SpecAt(api.body.docs[1])

====
